---- MODULE Spec2Model ----
(***************************************************************************)
(* Model of minimum_mortgage_repay_time_with_tracking (mortgage_app.py).   *)
(*                                                                         *)
(* One behaviour is one call of the function.  The arguments are chosen in *)
(* Init and never change; every other variable is a local of the function. *)
(* The inputs are whole amounts, the annual rates are multiples of 12 (so  *)
(* that rate / 12 is a whole monthly rate) and early_repay_percent is 0 or *)
(* 1, so every value the code computes is a whole number.  Money is a      *)
(* float: the operations round to 53 bits as the code's do, also in the    *)
(* runs whose balances double every month.                                 *)
(* A date is a record [year, month, day], as datetime.date.                *)
(***************************************************************************)
EXTENDS Integers, Sequences

VARIABLES
    args,                       \* the arguments of the call (read-only)
    pc,                         \* "loop", "done" (returned) or "error" (ValueError raised)
    current_date,
    start_date,
    start_no_limit_allowance_date,
    principal,
    savings,
    month_count,
    total_interest_paid,
    history,
    yearly_principal_snapshot,
    early_repay_used,
    time_passed,                \* time_passed.days
    step                        \* the locals of the last loop iteration

vars == <<args, pc, current_date, start_date, start_no_limit_allowance_date,
          principal, savings, month_count, total_interest_paid, history,
          yearly_principal_snapshot, early_repay_used, time_passed, step>>

(***************************************************************************)
(* Bounds of the model                                                     *)
(***************************************************************************)
\* n_years_with_allowance ranges over 0..MaxAllowance
MaxAllowance == 2

(***************************************************************************)
(* Program constants                                                       *)
(***************************************************************************)
MonthsPerYear == 12
DaysPerYear == 365
CutoffYears == 60

(***************************************************************************)
(* datetime.date                                                           *)
(***************************************************************************)
Date(y, m, d) == [year |-> y, month |-> m, day |-> d]

IsLeap(y) == (y % 4 = 0) /\ ((y % 100 # 0) \/ (y % 400 = 0))

DaysInMonth(y, m) ==
    IF m = 2 THEN (IF IsLeap(y) THEN 29 ELSE 28)
    ELSE IF m \in {4, 6, 9, 11} THEN 30 ELSE 31

\* date(y, m, d) raises ValueError unless the day exists in that month
ValidDate(y, m, d) == m \in 1..12 /\ d >= 1 /\ d <= DaysInMonth(y, m)

\* days in the years before year y (proleptic Gregorian, as date.toordinal)
DaysBeforeYear(y) ==
    LET n == y - 1 IN n * 365 + (n \div 4) - (n \div 100) + (n \div 400)

RECURSIVE DaysBeforeMonth(_, _)
DaysBeforeMonth(y, m) ==
    IF m = 1 THEN 0 ELSE DaysBeforeMonth(y, m - 1) + DaysInMonth(y, m - 1)

ToOrdinal(dt) == DaysBeforeYear(dt.year) + DaysBeforeMonth(dt.year, dt.month) + dt.day

\* (a - b).days
DaysBetween(a, b) == ToOrdinal(a) - ToOrdinal(b)

\* a < b on dates
DateLT(a, b) ==
    \/ a.year < b.year
    \/ a.year = b.year /\ a.month < b.month
    \/ a.year = b.year /\ a.month = b.month /\ a.day < b.day

\* the date the code moves to at the end of a step (lines 113-116), before
\* datetime validates it
NextMonthSameYear(dt) ==
    IF dt.month = 12 THEN Date(dt.year, 1, dt.day)
    ELSE Date(dt.year, dt.month + 1, dt.day)
NextMonth(dt) ==
    IF dt.month = 12 THEN Date(dt.year + 1, 1, dt.day)
    ELSE Date(dt.year, dt.month + 1, dt.day)

\* current_date.replace(...) returns normally
ReplaceOk(dt) == LET n == NextMonth(dt) IN ValidDate(n.year, n.month, n.day)


(***************************************************************************)
(* float: IEEE-754 binary64 on whole numbers                               *)
(*                                                                         *)
(* Every value the code computes on these inputs is a whole number.  A     *)
(* float x is modelled by the record [neg, hi, lo, exp] with               *)
(*     |x| = (hi * 2^30 + lo) * 2^exp,   x < 0 iff neg,                    *)
(* where the mantissa hi * 2^30 + lo has at most 53 bits (lo < 2^30,       *)
(* hi < 2^23) and exp >= 0 is as small as 53 bits allow; 0 has neg FALSE.  *)
(* Sums are computed exactly on naturals written in limbs (base Base,      *)
(* least significant first) and rounded to 53 bits, ties to even.          *)
(***************************************************************************)
LimbBits == 15
Base == 2^LimbBits
Precision == 53
Small == 2^30

Abs(n) == IF n < 0 THEN -n ELSE n

\* natural numbers in limbs
RECURSIVE NatOfInt(_)
NatOfInt(n) == IF n = 0 THEN <<>> ELSE <<n % Base>> \o NatOfInt(n \div Base)

RECURSIVE Trim(_)
Trim(a) ==
    IF a # <<>> /\ a[Len(a)] = 0 THEN Trim(SubSeq(a, 1, Len(a) - 1)) ELSE a

Limb(a, i) == IF i <= Len(a) THEN a[i] ELSE 0

RECURSIVE NatAddFrom(_, _, _, _)
NatAddFrom(a, b, i, carry) ==
    IF i > Len(a) /\ i > Len(b)
    THEN (IF carry = 0 THEN <<>> ELSE <<carry>>)
    ELSE LET s == Limb(a, i) + Limb(b, i) + carry
         IN <<s % Base>> \o NatAddFrom(a, b, i + 1, s \div Base)
NatAdd(a, b) == NatAddFrom(a, b, 1, 0)

\* a - b for a >= b
RECURSIVE NatSubFrom(_, _, _, _)
NatSubFrom(a, b, i, borrow) ==
    IF i > Len(a) THEN <<>>
    ELSE LET s == Limb(a, i) - Limb(b, i) - borrow
         IN <<IF s < 0 THEN s + Base ELSE s>>
              \o NatSubFrom(a, b, i + 1, IF s < 0 THEN 1 ELSE 0)
NatSub(a, b) == Trim(NatSubFrom(a, b, 1, 0))

\* -1, 0, 1 as a < b, a = b, a > b, comparing from limb i down
RECURSIVE NatCmpFrom(_, _, _)
NatCmpFrom(a, b, i) ==
    IF i = 0 THEN 0
    ELSE IF a[i] < b[i] THEN -1
    ELSE IF a[i] > b[i] THEN 1
    ELSE NatCmpFrom(a, b, i - 1)
NatCmp(a, b) ==
    IF Len(a) < Len(b) THEN -1
    ELSE IF Len(a) > Len(b) THEN 1
    ELSE NatCmpFrom(a, b, Len(a))

RECURSIVE NatTimesFrom(_, _, _, _)
NatTimesFrom(a, f, i, carry) ==
    IF i > Len(a) THEN (IF carry = 0 THEN <<>> ELSE <<carry>>)
    ELSE LET s == a[i] * f + carry
         IN <<s % Base>> \o NatTimesFrom(a, f, i + 1, s \div Base)

\* a * 2^k
NatShl(a, k) ==
    IF a = <<>> THEN <<>>
    ELSE [i \in 1..(k \div LimbBits) |-> 0]
           \o NatTimesFrom(a, 2^(k % LimbBits), 1, 0)

RECURSIVE NatDivFrom(_, _, _, _)
NatDivFrom(a, f, i, rem) ==
    IF i = 0 THEN <<>>
    ELSE LET cur == rem * Base + a[i]
         IN NatDivFrom(a, f, i - 1, cur % f) \o <<cur \div f>>

\* a \div 2^k
NatShr(a, k) ==
    LET q == k \div LimbBits
        rest == IF q >= Len(a) THEN <<>> ELSE SubSeq(a, q + 1, Len(a))
    IN Trim(NatDivFrom(rest, 2^(k % LimbBits), Len(rest), 0))

\* bit i of a (bit 0 is the least significant)
NatBit(a, i) == (Limb(a, (i \div LimbBits) + 1) \div 2^(i % LimbBits)) % 2

\* the bits of a below bit i are all 0
NatLowZero(a, i) ==
    /\ \A j \in 1..(i \div LimbBits) : Limb(a, j) = 0
    /\ Limb(a, (i \div LimbBits) + 1) % 2^(i % LimbBits) = 0

RECURSIVE BitsOf(_)
BitsOf(n) == IF n = 0 THEN 0 ELSE 1 + BitsOf(n \div 2)
NatBitLen(a) ==
    IF a = <<>> THEN 0 ELSE (Len(a) - 1) * LimbBits + BitsOf(a[Len(a)])

\* the float that is the whole number n, |n| < Small
F(n) == [neg |-> n < 0, hi |-> 0, lo |-> Abs(n), exp |-> 0]

\* x is a whole number below Small, and that number
IsSmall(x) == x.hi = 0 /\ x.exp = 0
IntOf(x) == IF x.neg THEN -x.lo ELSE x.lo

\* the mantissa of x in limbs
Man(x) == Trim(<<x.lo % Base, x.lo \div Base>> \o NatOfInt(x.hi))

\* the float of sign neg, mantissa man (at most 53 bits) and exponent exp
Pack(neg, man, exp) ==
    [neg |-> neg,
     hi |-> Limb(man, 3) + Base * Limb(man, 4),
     lo |-> Limb(man, 1) + Base * Limb(man, 2),
     exp |-> exp]

\* the float of sign neg whose magnitude is m * 2^exp, m of 53 or (after a
\* carry out of the rounding) 54 bits
Carry(neg, m, exp) ==
    IF NatBitLen(m) > Precision THEN Pack(neg, NatShr(m, 1), exp + 1)
    ELSE Pack(neg, m, exp)

\* nat = q * 2^r + rest rounds up: rest is above half of 2^r, or is the half
\* and q is odd
RoundsUp(nat, r, q) ==
    /\ NatBit(nat, r - 1) = 1
    /\ (~NatLowZero(nat, r - 1) \/ NatBit(q, 0) = 1)

\* nat has r bits too many, q is nat without them
Narrow(neg, nat, exp, r, q) ==
    Carry(neg, IF RoundsUp(nat, r, q) THEN NatAdd(q, <<1>>) ELSE q, exp + r)

\* nat fits: the exponent is lowered by k
Widen(neg, nat, exp, k) == Pack(neg, NatShl(nat, k), exp - k)

\* Round for nat of n bits
RoundBits(neg, nat, exp, n) ==
    IF n = 0 THEN F(0)
    ELSE IF n <= Precision
    THEN Widen(neg, nat, exp, IF exp < Precision - n THEN exp ELSE Precision - n)
    ELSE Narrow(neg, nat, exp, n - Precision, NatShr(nat, n - Precision))

\* the float nearest to (-1)^neg * nat * 2^exp, ties to even
Round(neg, nat, exp) == RoundBits(neg, nat, exp, NatBitLen(nat))

\* 1, 0, -1 as x > 0, x = 0, x < 0
FSign(x) == IF x.hi = 0 /\ x.lo = 0 THEN 0 ELSE IF x.neg THEN -1 ELSE 1

FNeg(x) == IF FSign(x) = 0 THEN x ELSE [x EXCEPT !.neg = ~x.neg]

\* the mantissa of x written at the smaller of the exponents of x and y
Aligned(x, y) == NatShl(Man(x), IF x.exp > y.exp THEN x.exp - y.exp ELSE 0)

\* the sum of (-1)^xneg * a * 2^exp and (-1)^yneg * b * 2^exp, c = NatCmp(a, b)
SumOf(xneg, yneg, a, b, c, exp) ==
    Round(IF xneg = yneg \/ c > 0 THEN xneg ELSE yneg,
          IF xneg = yneg THEN NatAdd(a, b)
          ELSE IF c > 0 THEN NatSub(a, b) ELSE NatSub(b, a),
          exp)

AddAligned(xneg, yneg, a, b, exp) == SumOf(xneg, yneg, a, b, NatCmp(a, b), exp)

\* x + y: when the exponents are more than 55 apart the smaller operand is
\* below half a unit of the last place of the larger
FAddBig(x, y) ==
    IF FSign(x) = 0 THEN y
    ELSE IF FSign(y) = 0 THEN x
    ELSE IF x.exp - y.exp > Precision + 2 THEN x
    ELSE IF y.exp - x.exp > Precision + 2 THEN y
    ELSE AddAligned(x.neg, y.neg, Aligned(x, y), Aligned(y, x),
                    IF x.exp < y.exp THEN x.exp ELSE y.exp)

\* x + y, s the sum of two small operands (Small when one is not small)
AddVia(x, y, s) == IF Abs(s) < Small THEN F(s) ELSE FAddBig(x, y)

\* x + y
FAdd(x, y) ==
    AddVia(x, y, IF IsSmall(x) /\ IsSmall(y) THEN IntOf(x) + IntOf(y) ELSE Small)

\* x - y
FSub(x, y) == FAdd(x, FNeg(y))

\* x * k for a whole factor 0 <= k < Base
FTimes(x, k) ==
    IF IsSmall(x) /\ x.lo < Base THEN F(IntOf(x) * k)
    ELSE Round(x.neg, Trim(NatTimesFrom(Man(x), k, 1, 0)), x.exp)

\* |x| < |y|: the representation is canonical, so magnitudes order as (exp, hi, lo)
MagLT(x, y) ==
    \/ x.exp < y.exp
    \/ x.exp = y.exp /\ x.hi < y.hi
    \/ x.exp = y.exp /\ x.hi = y.hi /\ x.lo < y.lo

\* x < y, x <= y
FLT(x, y) ==
    IF x.neg # y.neg THEN x.neg
    ELSE IF x.neg THEN MagLT(y, x) ELSE MagLT(x, y)
FLE(x, y) == ~FLT(y, x)

\* min(x, y), max(x, y)
FMin(x, y) == IF FLT(y, x) THEN y ELSE x
FMax(x, y) == IF FLT(x, y) THEN y ELSE x

(***************************************************************************)
(* The arithmetic of one step                                              *)
(***************************************************************************)
\* annual / 12, a whole number on the rates of the model
MonthlyRate(annual) == annual \div MonthsPerYear

ActualPayment(monthly_payment, p) == FMin(monthly_payment, p)

IsResetDateAnyDay(dt) == dt.month = 1
IsResetDate(dt) == dt.month = 1 /\ dt.day = 1

EarlyRepayLimitForgetUsed(dt, nolimit, snapshot, percent, used, p) ==
    IF DateLT(dt, nolimit) THEN FTimes(snapshot, percent) ELSE p
EarlyRepayLimitAlwaysCapped(dt, nolimit, snapshot, percent, used, p) ==
    FSub(FTimes(snapshot, percent), used)
EarlyRepayLimit(dt, nolimit, snapshot, percent, used, p) ==
    IF DateLT(dt, nolimit) THEN FSub(FTimes(snapshot, percent), used) ELSE p

ActualEarlyRepayIgnorePrincipal(funds, limit, p) == FMin(funds, limit)
ActualEarlyRepay(funds, limit, p) == FMin(FMin(funds, limit), p)

\* mortgage_amount - principal + total_interest_paid, left to right
TotalPaid(amount, p, interest) == FAdd(FSub(amount, p), interest)

Record(dt, p, s, interest, amount) ==
    [date |-> dt, principal_remaining |-> p, savings |-> s,
     interest_paid |-> interest, total_paid |-> TotalPaid(amount, p, interest)]

LoopConditionAnd(p, days, projection_years) ==
    FSign(p) > 0 /\ (days \div DaysPerYear) < projection_years
\* principal > 1e-5 is principal > 0 on whole amounts
LoopCondition(p, days, projection_years) ==
    FSign(p) > 0 \/ (days \div DaysPerYear) < projection_years

CutoffLate(days) == days > DaysPerYear * (CutoffYears + 1)
Cutoff(days) == days > DaysPerYear * CutoffYears

(***************************************************************************)
(* One iteration, statement by statement, on the record l of the locals.   *)
(* principal, savings, total_interest_paid, yearly_principal_snapshot and  *)
(* early_repay_used are the variables of the code; the other fields keep   *)
(* the values the iteration went through: the variables at its start       *)
(* (..._before), principal after the payment (principal_due), savings      *)
(* after growth (savings_grown), leftover as assigned at line 88           *)
(* (leftover) and as left by lines 104/106 (deposit), leftover + savings   *)
(* of line 99 (funds), whether lines 91-92 ran (reset).                    *)
(***************************************************************************)
NoStep == [date |-> Date(0, 1, 1), principal |-> F(0), savings |-> F(0),
           total_interest_paid |-> F(0), yearly_principal_snapshot |-> F(0),
           early_repay_used |-> F(0),
           principal_before |-> F(0), savings_before |-> F(0),
           snapshot_before |-> F(0), used_before |-> F(0),
           interest_this_month |-> F(0), actual_payment |-> F(0),
           principal_due |-> F(0), savings_grown |-> F(0), funds |-> F(0),
           leftover |-> F(0), reset |-> FALSE,
           early_repay_limit |-> F(0), actual_early_repay |-> F(0),
           from_savings |-> F(0), deposit |-> F(0)]

\* the locals at the top of the loop body
Entry ==
    [NoStep EXCEPT !.date = current_date, !.principal = principal,
                   !.savings = savings,
                   !.total_interest_paid = total_interest_paid,
                   !.yearly_principal_snapshot = yearly_principal_snapshot,
                   !.early_repay_used = early_repay_used,
                   !.principal_before = principal, !.savings_before = savings,
                   !.snapshot_before = yearly_principal_snapshot,
                   !.used_before = early_repay_used]

\* lines 80-82
Accrued(l, interest_this_month) ==
    [l EXCEPT !.interest_this_month = interest_this_month,
              !.total_interest_paid = FAdd(@, interest_this_month),
              !.principal = FAdd(@, interest_this_month)]
AccrueInterest(l) ==
    Accrued(l, FTimes(l.principal, MonthlyRate(args.mortgage_interest_rate)))

\* line 84
Grown(l, s) == [l EXCEPT !.savings = s, !.savings_grown = s]
GrowSavings(l) ==
    Grown(l, FTimes(l.savings, 1 + MonthlyRate(args.savings_interest_rate)))

\* lines 86-88
PaidDown(l, actual_payment, p) ==
    [l EXCEPT !.actual_payment = actual_payment,
              !.principal = p, !.principal_due = p,
              !.leftover = FSub(F(args.monthly_revenue), actual_payment)]
Paid(l, actual_payment) ==
    PaidDown(l, actual_payment, FSub(l.principal, actual_payment))
Pay(l) == Paid(l, ActualPayment(F(args.monthly_payment), l.principal))

\* lines 90-92
ResetAllowance(l) ==
    IF IsResetDate(l.date)
    THEN [l EXCEPT !.yearly_principal_snapshot = l.principal,
                   !.early_repay_used = F(0), !.reset = TRUE]
    ELSE l

\* lines 94-97
LimitEarlyRepay(l) ==
    [l EXCEPT !.early_repay_limit =
        EarlyRepayLimit(l.date, start_no_limit_allowance_date,
                        l.yearly_principal_snapshot, args.early_repay_percent,
                        l.early_repay_used, l.principal)]

\* line 99
Funds(l) == [l EXCEPT !.funds = FAdd(l.leftover, l.savings)]
RepayEarly(l) ==
    [l EXCEPT !.actual_early_repay =
        ActualEarlyRepay(l.funds, l.early_repay_limit, l.principal)]

\* lines 101-106
Drawn(l, from_savings) ==
    [l EXCEPT !.from_savings = from_savings,
              !.savings = FMax(F(0), FSub(@, from_savings)),
              !.deposit = F(0)]
DrawOrKeep(l) ==
    IF FLT(l.leftover, l.actual_early_repay)
    THEN Drawn(l, FSub(l.actual_early_repay, l.leftover))
    ELSE [l EXCEPT !.deposit = FSub(l.leftover, l.actual_early_repay)]

\* lines 108-110
Settle(l) ==
    [l EXCEPT !.principal = FSub(@, l.actual_early_repay),
              !.early_repay_used = FAdd(@, l.actual_early_repay),
              !.savings = FAdd(@, l.deposit)]

\* lines 80-110: the locals at the end of the iteration
Iteration ==
    Settle(DrawOrKeep(RepayEarly(Funds(LimitEarlyRepay(ResetAllowance(
        Pay(GrowSavings(AccrueInterest(Entry)))))))))

(***************************************************************************)
(* Inputs                                                                  *)
(***************************************************************************)
StartDates == {Date(2024, 1, 1), Date(2025, 8, 1), Date(2025, 8, 15),
               Date(2024, 1, 31), Date(2024, 2, 29)}
FirstOfMonth == {Date(2024, 1, 1), Date(2025, 8, 1)}
Savings == {0, 5}
Amounts == {0, 4, 10}
Payments == {0, 1, 4}
Percents == {0, 1}
AnnualRates == {0, 12}
Revenues == {1, 3, 12}
ProjectionYears == {0, 2}

\* the grid of scenarios without interest
GridArgs == [current_date : StartDates, start_saving : Savings,
             mortgage_amount : Amounts, monthly_payment : Payments,
             early_repay_percent : Percents,
             n_years_with_allowance : 0..MaxAllowance,
             mortgage_interest_rate : {0}, monthly_revenue : Revenues,
             savings_interest_rate : {0},
             projection_years : ProjectionYears]

\* scenarios with interest on the mortgage, on the savings or on both; at
\* 100% a month a balance that is not repaid doubles at every step
RateArgs == [current_date : FirstOfMonth, start_saving : Savings,
             mortgage_amount : {10}, monthly_payment : {0, 4},
             early_repay_percent : {1},
             n_years_with_allowance : 0..MaxAllowance,
             mortgage_interest_rate : AnnualRates, monthly_revenue : {12},
             savings_interest_rate : AnnualRates,
             projection_years : ProjectionYears]

\* scenarios that run for decades: no revenue, a payment that only covers
\* the interest or none at all, or a projection up to and beyond the cutoff
LongArgs == [current_date : FirstOfMonth,
             start_saving : {0},
             mortgage_amount : {0, 4}, monthly_payment : {0, 4},
             early_repay_percent : {0},
             n_years_with_allowance : {1},
             mortgage_interest_rate : AnnualRates, monthly_revenue : {0, 4},
             savings_interest_rate : {0},
             projection_years : {0, CutoffYears, CutoffYears + 1}]

\* Scenario 1 and Scenario 2 of the specification
ScenarioArgs ==
    {[current_date |-> Date(2025, 8, 1), start_saving |-> 0,
      mortgage_amount |-> 120000, monthly_payment |-> 1000,
      early_repay_percent |-> 0, n_years_with_allowance |-> 100,
      mortgage_interest_rate |-> 0, monthly_revenue |-> 1000,
      savings_interest_rate |-> 0, projection_years |-> 0],
     [current_date |-> Date(2025, 8, 1), start_saving |-> 0,
      mortgage_amount |-> 10000, monthly_payment |-> 500,
      early_repay_percent |-> 1, n_years_with_allowance |-> 0,
      mortgage_interest_rate |-> 0, monthly_revenue |-> 10500,
      savings_interest_rate |-> 0, projection_years |-> 0]}

\* savings and mortgage both at interest behind a four-year window that
\* allows no early repayment: when the window ends the savings have doubled
\* 49 times and are drawn from at a size where the sums round
WindowArgs == [current_date : FirstOfMonth, start_saving : {8},
               mortgage_amount : {64}, monthly_payment : {0},
               early_repay_percent : {0},
               n_years_with_allowance : {4},
               mortgage_interest_rate : {12}, monthly_revenue : {9},
               savings_interest_rate : {12},
               projection_years : {0}]

Args == GridArgs \cup RateArgs \cup LongArgs \cup WindowArgs \cup ScenarioArgs

\* lines 54-78
Init ==
    /\ args \in Args
    /\ LET cd == args.current_date
           ok == ValidDate(cd.year + args.n_years_with_allowance, cd.month, cd.day)
       IN /\ pc = IF ok THEN "loop" ELSE "error"
          /\ current_date = cd
          /\ start_date = cd
          /\ start_no_limit_allowance_date =
                Date(cd.year + args.n_years_with_allowance, cd.month, cd.day)
          /\ history = IF ok THEN <<Record(cd, F(args.mortgage_amount),
                                           F(args.start_saving), F(0),
                                           F(args.mortgage_amount))>>
                       ELSE <<>>
    /\ principal = F(args.mortgage_amount)
    /\ savings = F(args.start_saving)
    /\ month_count = 0
    /\ total_interest_paid = F(0)
    /\ yearly_principal_snapshot = F(args.mortgage_amount)
    /\ early_repay_used = F(0)
    /\ time_passed = 0
    /\ step = NoStep

InLoop ==
    /\ pc = "loop"
    /\ LoopCondition(principal, time_passed, args.projection_years)

\* an iteration that leaves the locals it: lines 80-112
Body(it) ==
    /\ principal' = it.principal
    /\ savings' = it.savings
    /\ total_interest_paid' = it.total_interest_paid
    /\ yearly_principal_snapshot' = it.yearly_principal_snapshot
    /\ early_repay_used' = it.early_repay_used
    /\ step' = it
    /\ month_count' = month_count + 1

\* lines 113-125 of an iteration whose date exists
Advance(it) ==
    /\ current_date' = NextMonth(current_date)
    /\ history' = Append(history, Record(NextMonth(current_date), it.principal,
                                         it.savings, it.total_interest_paid,
                                         F(args.mortgage_amount)))
    /\ time_passed' = DaysBetween(NextMonth(current_date), start_date)

\* lines 80-125
Completed(it) == Body(it) /\ Advance(it)

\* an iteration that ends at the loop test again
StepContinue ==
    /\ InLoop
    /\ ReplaceOk(current_date)
    /\ ~Cutoff(DaysBetween(NextMonth(current_date), start_date))
    /\ Completed(Iteration)
    /\ UNCHANGED <<args, pc, start_date, start_no_limit_allowance_date>>

\* an iteration that ends with the break of lines 126-127
StepBreak ==
    /\ InLoop
    /\ ReplaceOk(current_date)
    /\ Cutoff(DaysBetween(NextMonth(current_date), start_date))
    /\ Completed(Iteration)
    /\ pc' = "done"
    /\ UNCHANGED <<args, start_date, start_no_limit_allowance_date>>

\* an iteration in which current_date.replace raises ValueError (lines 114, 116)
StepRaise ==
    /\ InLoop
    /\ ~ReplaceOk(current_date)
    /\ Body(Iteration)
    /\ pc' = "error"
    /\ UNCHANGED <<args, current_date, history, time_passed, start_date,
                   start_no_limit_allowance_date>>

\* the loop test fails: line 129
Return ==
    /\ pc = "loop"
    /\ ~LoopCondition(principal, time_passed, args.projection_years)
    /\ pc' = "done"
    /\ UNCHANGED <<args, current_date, start_date, start_no_limit_allowance_date,
                   principal, savings, month_count, total_interest_paid, history,
                   yearly_principal_snapshot, early_repay_used, time_passed, step>>

Next == StepContinue \/ StepBreak \/ StepRaise \/ Return

Spec == Init /\ [][Next]_vars


(***************************************************************************)
(* Properties                                                              *)
(***************************************************************************)
Last == history[Len(history)]

\* a <= b on dates
DateLE(a, b) == a = b \/ DateLT(a, b)

\* a step has been executed and its record appended
Stepped == month_count > 0 /\ pc # "error"

\* the step just executed was inside the allowance window
InWindow == DateLT(step.date, start_no_limit_allowance_date)

\* dt moved forward by n calendar months / years, day unchanged
AddMonths(dt, n) ==
    LET t == dt.month - 1 + n
    IN Date(dt.year + (t \div MonthsPerYear), (t % MonthsPerYear) + 1, dt.day)
AddYears(dt, n) == Date(dt.year + n, dt.month, dt.day)

\* C1: every record of the history has principal_remaining >= 0 and
\* savings >= 0, also when monthly_revenue is below the monthly payment.
C1_NonNegative ==
    \A i \in 1..Len(history) :
        /\ FSign(history[i].principal_remaining) >= 0
        /\ FSign(history[i].savings) >= 0

\* a recorded month in which revenue plus savings did not cover the payment
C1_Witness ==
    /\ Stepped
    /\ FLT(F(args.monthly_revenue), step.actual_payment)
    /\ FSign(step.funds) < 0
    /\ FSign(Last.principal_remaining) > 0

\* C2: after every step inside the allowance window the early repayment
\* accumulated since the last annual reset is at most
\* yearly_principal_snapshot * early_repay_percent.
C2_CapRespected ==
    (month_count > 0 /\ InWindow) =>
        FLE(early_repay_used,
            FTimes(yearly_principal_snapshot, args.early_repay_percent))

\* a step in the window whose early repayment was cut by the cap: the
\* allowance is used up although money and principal remain
C2_Witness ==
    /\ Stepped /\ InWindow
    /\ FSign(step.actual_early_repay) > 0
    /\ step.actual_early_repay = step.early_repay_limit
    /\ FLT(step.actual_early_repay, step.principal_due)
    /\ FLT(step.actual_early_repay, step.funds)
    /\ early_repay_used =
          FTimes(yearly_principal_snapshot, args.early_repay_percent)

\* C3: the loop executes at most 720 monthly steps, whatever the payment
\* and projection_years.
C3_TerminationBound == month_count <= CutoffYears * MonthsPerYear

\* the break ended a run whose mortgage had doubled every month
C3_Witness ==
    /\ pc = "done"
    /\ month_count = CutoffYears * MonthsPerYear
    /\ principal.exp > 0
    /\ args.mortgage_interest_rate > 0

\* C4: interest_paid and total_paid never decrease from one record of the
\* history to the next.
C4_Monotone ==
    \A i \in 1..(Len(history) - 1) :
        /\ FLE(history[i].interest_paid, history[i + 1].interest_paid)
        /\ FLE(history[i].total_paid, history[i + 1].total_paid)

\* C5 as stated: for every projection_years the last record is dated no
\* earlier than start_date + projection_years years.
C5_Original ==
    pc = "done" => DateLE(AddYears(start_date, args.projection_years), Last.date)

\* C5 as amended: for projection_years up to the 60 years of the cutoff the
\* last record is dated no earlier than start_date + projection_years years.
C5_MinimumDuration ==
    (pc = "done" /\ args.projection_years <= CutoffYears) =>
        DateLE(AddYears(start_date, args.projection_years), Last.date)

\* a finished run that went on stepping after the mortgage reached zero
C5_Witness ==
    /\ pc = "done"
    /\ args.projection_years > 0
    /\ args.mortgage_amount > 0
    /\ \E i \in 1..Len(history) :
          /\ FSign(history[i].principal_remaining) = 0
          /\ DateLT(history[i].date, AddYears(start_date, args.projection_years))

\* C6: in a step on or after start_date + n_years_with_allowance, if leftover
\* plus grown savings covers the principal left after the mandatory payment,
\* the record of that step has principal_remaining = 0.
C6_UnlimitedPhase ==
    (Stepped /\ ~InWindow
       /\ FLE(step.principal_due, step.funds)) =>
        FSign(Last.principal_remaining) = 0

\* the very first step of a run without allowance window retires a principal
\* that a cap fraction of 0 would never have allowed
C6_Witness ==
    /\ Stepped /\ ~InWindow
    /\ month_count = 1
    /\ args.n_years_with_allowance = 0
    /\ args.early_repay_percent = 0
    /\ FSign(step.principal_due) > 0
    /\ FLE(step.principal_due, step.funds)
    /\ FSign(Last.principal_remaining) = 0

\* the history has month_count + 1 records, the first is the initial state,
\* record i is dated i months after start_date
DatedHistory ==
    /\ pc # "error"
    /\ Len(history) = month_count + 1
    /\ history[1] = [date |-> start_date,
                     principal_remaining |-> F(args.mortgage_amount),
                     savings |-> F(args.start_saving),
                     interest_paid |-> F(0), total_paid |-> F(0)]
    /\ \A i \in 1..Len(history) : history[i].date = AddMonths(start_date, i - 1)

\* C7 as stated: for every start date the call returns normally with a
\* history of month_count + 1 records, record i dated i months after
\* start_date.
C7_Original == DatedHistory

\* C7 as amended: the same for every start date whose day is at most 28.
C7_DatedHistory == args.current_date.day <= 28 => DatedHistory

\* a finished run from the 15th of a month that went through a December
C7_Witness ==
    /\ pc = "done"
    /\ args.current_date.day = 15
    /\ month_count > MonthsPerYear
    /\ Last.date.year > start_date.year + 1

\* the effect of the annual reset, made when `when` holds of the date of the
\* step and only then
ResetWhen(when) ==
    month_count > 0 =>
        IF when
        THEN /\ yearly_principal_snapshot = step.principal_due
             /\ early_repay_used = step.actual_early_repay
             /\ InWindow =>
                  step.early_repay_limit =
                      FTimes(step.principal_due, args.early_repay_percent)
        ELSE /\ yearly_principal_snapshot = step.snapshot_before
             /\ early_repay_used = FAdd(step.used_before, step.actual_early_repay)

\* C8 as stated: the annual reset is made in the step whose date is in
\* January, before the cap of that step is computed, and in no other step.
C8_Original == ResetWhen(step.date.month = 1)

\* C8 as amended: the annual reset is made in the steps whose date is the
\* 1st of January, before the cap of that step is computed, and in no other.
C8_AnnualReset == ResetWhen(step.date.month = 1 /\ step.date.day = 1)

\* a January step of a run started on the 1st that replaced a used allowance
C8_Witness ==
    /\ Stepped
    /\ step.date.month = 1 /\ step.date.day = 1
    /\ month_count > 1
    /\ FSign(step.used_before) > 0
    /\ step.snapshot_before # step.principal_due
    /\ early_repay_used = step.actual_early_repay

\* C9: in every step actual_early_repay >= 0, so early_repay_used is never
\* negative and the principal after the step is at most the principal left
\* after interest and the mandatory payment.
C9_NoNegativeEarlyRepay ==
    month_count > 0 =>
        /\ FSign(step.actual_early_repay) >= 0
        /\ FSign(early_repay_used) >= 0
        /\ FLE(principal, step.principal_due)

\* C10: the amount drawn from savings never exceeds the grown balance, the
\* balance after the step is grown savings + revenue - payment - early
\* repayment, and a month that draws on savings deposits nothing.
C10_SavingsConserved ==
    month_count > 0 =>
        /\ step.savings_grown =
              FTimes(step.savings_before,
                     1 + MonthlyRate(args.savings_interest_rate))
        /\ FLE(step.from_savings, step.savings_grown)
        /\ savings = FSub(FSub(FAdd(step.savings_grown, F(args.monthly_revenue)),
                               step.actual_payment),
                          step.actual_early_repay)
        /\ FSign(step.from_savings) > 0 =>
              /\ FLT(step.leftover, step.actual_early_repay)
              /\ FSign(step.deposit) = 0
        /\ FSign(step.from_savings) = 0 => FLE(step.savings_grown, savings)

====
